---------------------------- MODULE Spec2Model ----------------------------
(***************************************************************************)
(* A model of touchHLE's guest filesystem (src/src/fs.rs) and of its       *)
(* generic guest-memory string functions (src/src/libc/generic_char.rs).   *)
(*                                                                         *)
(* A guest path is a sequence of symbols.  The symbol "/" is the           *)
(* separator and "." is a single dot; every other symbol ("Documents",     *)
(* "f", ...) stands for a run of characters that holds no separator and at *)
(* least one character other than a dot.  A path component is the          *)
(* sequence of symbols between two separators, so <<>> is the empty        *)
(* component, <<".">> is `.' and <<".", ".">> is `..'.                     *)
(***************************************************************************)
EXTENDS Integers, Sequences, FiniteSets, TLC

VARIABLES
    \* ---- Fs (fs.rs:269-273) and the position of its caller
    root,               \* Fs::root, the node tree
    current_directory,  \* Fs::current_directory
    home_directory,     \* Fs::home_directory
    fs_pc,              \* "idle" | "returned": the caller's position
    fs_call,            \* the operation that returned, with its arguments
    fs_ret,             \* what it returned
    host_open,          \* the host files the call opened (at most one)
    created,            \* the guest paths open_with_options inserted so far
    \* ---- resolve_path (fs.rs:196-212) applied to drawn inputs
    rp_pc,              \* "idle" | "resolved" | "reresolved"
    rp_path,            \* the path argument
    rp_relative_to,     \* the relative_to argument (the current directory)
    rp_ret,             \* the component list returned
    rp_again,           \* the component list of the result's string form
    \* ---- guest memory and the string function that ran on it
    mem,                \* guest memory: address -> code unit
    str_pc,             \* "idle" | "returned"
    str_call,           \* the function that returned, with its arguments
    str_mem0,           \* guest memory as it was when the function was called
    str_out             \* its outcome: result, units read, units written

vars == <<root, current_directory, home_directory, fs_pc, fs_call, fs_ret,
          host_open, created, rp_pc, rp_path, rp_relative_to, rp_ret, rp_again,
          mem, str_pc, str_call, str_mem0, str_out>>

fs_vars == <<root, current_directory, home_directory, fs_pc, fs_call, fs_ret,
             host_open, created>>
rp_vars == <<rp_pc, rp_path, rp_relative_to, rp_ret, rp_again>>
str_vars == <<mem, str_pc, str_call, str_mem0, str_out>>

(***************************************************************************)
(* Bounds of the model.                                                    *)
(***************************************************************************)
\* longest run of symbols drawn after a path prefix
MaxTailLen == 2
\* longest current directory drawn for resolve_path, in symbols
MaxCwdLen == 3
\* most files created by open_with_options in one run
MaxCreated == 1
\* guest memory holds the addresses 1..MemSize
MemSize == 5
\* code units are 0..MaxUnit; 0 is the terminator
MaxUnit == 2

\* The symbols paths are drawn from.
Alphabet == {"/", ".", "f"}

RECURSIVE SeqsUpTo(_, _)
SeqsUpTo(S, n) ==
    IF n = 0 THEN {<<>>}
    ELSE LET shorter == SeqsUpTo(S, n - 1)
         IN  shorter \cup {Append(s, x) : s \in shorter, x \in S}

(***************************************************************************)
(* GuestPath                                                               *)
(***************************************************************************)
\* str::starts_with('/')
starts_with_slash(s) == Len(s) > 0 /\ s[1] = "/"

\* str::split('/'): the components between separators; never an empty list.
RECURSIVE split(_)
split(s) ==
    IF s = <<>> THEN << <<>> >>
    ELSE LET rest == split(Tail(s))
         IN  IF Head(s) = "/"
             THEN << <<>> >> \o rest
             ELSE << <<Head(s)>> \o Head(rest) >> \o Tail(rest)

\* GuestPath::join: "{self}/{path}", unconditionally.
join(self, path) == self \o <<"/">> \o path

\* Vec::pop: drops the last element, a no-op on the empty list.
pop(components) ==
    IF Len(components) = 0 THEN components
    ELSE SubSeq(components, 1, Len(components) - 1)

\* A bug a path resolver could have: `..' is pushed like a name.
apply_path_component_dotdot_pushed(components, component) ==
    IF component = <<>> THEN components
    ELSE IF component = <<".">> THEN components
    ELSE Append(components, component)

\* A bug a path resolver could have: `.' is pushed like a name.
apply_path_component_dot_pushed(components, component) ==
    IF component = <<>> THEN components
    ELSE IF component = <<".", ".">> THEN pop(components)
    ELSE Append(components, component)

apply_path_component(components, component) ==
    IF component = <<>> THEN components
    ELSE IF component = <<".">> THEN components
    ELSE IF component = <<".", ".">> THEN pop(components)
    ELSE Append(components, component)

RECURSIVE apply_all(_, _)
apply_all(components, pieces) ==
    IF pieces = <<>> THEN components
    ELSE apply_all(apply_path_component(components, Head(pieces)), Tail(pieces))

\* Option<&GuestPath>: <<>> is None, <<p>> is Some(p).
None == <<>>
Some(x) == <<x>>

\* resolve_path aborts: relative_to.unwrap() on None, or the assert on a
\* relative_to that is not absolute.
resolve_path_panics(path, relative_to) ==
    /\ ~starts_with_slash(path)
    /\ \/ relative_to = None
       \/ ~starts_with_slash(relative_to[1])

resolve_path(path, relative_to) ==
    LET base == IF ~starts_with_slash(path)
                THEN apply_all(<<>>, split(relative_to[1]))
                ELSE <<>>
    IN  apply_all(base, split(path))

\* The string form of a component list: "/" followed by the components
\* joined by "/".
RECURSIVE joined(_)
joined(components) ==
    IF components = <<>> THEN <<>>
    ELSE IF Len(components) = 1 THEN Head(components)
    ELSE Head(components) \o <<"/">> \o joined(Tail(components))

string_form(components) == <<"/">> \o joined(components)


(***************************************************************************)
(* FsNode                                                                  *)
(*                                                                         *)
(* A host path is a sequence of components.  Option<PathBuf> is None (<<>>)*)
(* or Some(p) (<<p>>).  HashMap<String, FsNode> is a function from         *)
(* components to nodes.                                                    *)
(***************************************************************************)
FsNode_File(host_path, writeable) ==
    [kind |-> "File", host_path |-> host_path, writeable |-> writeable]

FsNode_Directory(children, writeable) ==
    [kind |-> "Directory", children |-> children, writeable |-> writeable]

\* HashMap::new()
EmptyMap == [x \in {} |-> {}]

\* Path::join with a single relative component (a Unix host).
host_join(host_path, name) == Append(host_path, name)

\* The host directories scanned at construction (std::fs::read_dir): each
\* entry is a regular file or a directory.  The bundle holds a file and a
\* directory with a file; the sandbox holds a file saved by an earlier run
\* and an empty directory.
bundle_host_path == << <<"bundle">> >>
dylibs_host_path == << <<"touchHLE_dylibs">> >>
bundle_dir_name == <<"Demo.app">>
bundle_id == <<"com.ex.demo">>
FAKE_UUID == <<"00000000-0000-0000-0000-000000000000">>
documents_host_path == << <<"touchHLE_sandbox">>, bundle_id, <<"Documents">> >>

read_dir(host_path) ==
    IF host_path = bundle_host_path
    THEN (<<"f">> :> "file") @@ (<<"Resources">> :> "dir")
    ELSE IF host_path = host_join(bundle_host_path, <<"Resources">>)
    THEN (<<"f">> :> "file")
    ELSE IF host_path = documents_host_path
    THEN (<<"save">> :> "file") @@ (<<"sub">> :> "dir")
    ELSE EmptyMap

RECURSIVE from_host_dir(_, _)
from_host_dir(host_path, writeable) ==
    LET entries == read_dir(host_path)
        child(name) ==
            IF entries[name] = "file"
            THEN FsNode_File(host_join(host_path, name), writeable)
            ELSE from_host_dir(host_join(host_path, name), writeable)
    IN  FsNode_Directory([name \in DOMAIN entries |-> child(name)],
                         IF writeable THEN Some(host_path) ELSE None)

dir == FsNode_Directory(EmptyMap, None)

with_child(self, name, child) ==
    [self EXCEPT !.children = (name :> child) @@ @]

file(host_path) == FsNode_File(host_path, FALSE)

\* Fs::new: the filesystem after construction.

usr_lib ==
    with_child(
     with_child(
      with_child(dir, <<"libgcc_s.1.dylib">>,
                 file(host_join(dylibs_host_path, <<"libgcc_s.1.dylib">>))),
      <<"libstdc++.6.dylib">>,
      file(host_join(dylibs_host_path, <<"libstdc++.6.0.4.dylib">>))),
     <<"libstdc++.6.0.4.dylib">>,
     file(host_join(dylibs_host_path, <<"libstdc++.6.0.4.dylib">>)))

home_directory_new == <<"/", "User", "/", "Applications", "/">> \o FAKE_UUID

Fs_new ==
    [root |->
        with_child(
         with_child(dir, <<"User">>,
            with_child(dir, <<"Applications">>,
               with_child(dir, FAKE_UUID,
                  FsNode_Directory(
                     (bundle_dir_name :> from_host_dir(bundle_host_path, FALSE))
                     @@ (<<"Documents">> :> from_host_dir(documents_host_path, TRUE)),
                     None)))),
         <<"usr">>, with_child(dir, <<"lib">>, usr_lib)),
     current_directory |-> home_directory_new,
     home_directory |-> home_directory_new]

(***************************************************************************)
(* Lookups                                                                 *)
(***************************************************************************)
\* The walk of lookup_node and lookup_parent_node: from `node' down the
\* components; None when a node on the way is no Directory or has no such
\* child.
RECURSIVE walk(_, _)
walk(node, components) ==
    IF components = <<>> THEN Some(node)
    ELSE IF node.kind # "Directory" THEN None
    ELSE IF Head(components) \notin DOMAIN node.children THEN None
    ELSE walk(node.children[Head(components)], Tail(components))

lookup_node(r, cwd, path) == walk(r, resolve_path(path, Some(cwd)))

\* Some of the parent node, where it is, and the final component.
\* A bug the parent lookup could have: the final name is taken from the
\* text behind the path's last `/' instead of from the resolved components.
lookup_parent_node_raw_name(r, cwd, path) ==
    LET components == resolve_path(path, Some(cwd))
        pieces == split(path)
    IN  IF components = <<>> THEN None
        ELSE LET parent_components == pop(components)
                 parent == walk(r, parent_components)
             IN  IF parent = None THEN None
                 ELSE Some([node |-> parent[1],
                            at |-> parent_components,
                            final_component |-> pieces[Len(pieces)]])

lookup_parent_node(r, cwd, path) ==
    LET components == resolve_path(path, Some(cwd))
    IN  IF components = <<>> THEN None
        ELSE LET parent_components == pop(components)
                 parent == walk(r, parent_components)
             IN  IF parent = None THEN None
                 ELSE Some([node |-> parent[1],
                            at |-> parent_components,
                            final_component |-> components[Len(components)]])

is_file(r, cwd, path) ==
    LET node == lookup_node(r, cwd, path)
    IN  node # None /\ node[1].kind = "File"


(***************************************************************************)
(* GuestOpenOptions and the host's open                                    *)
(***************************************************************************)
GuestOpenOptions ==
    [read : BOOLEAN, write : BOOLEAN, append : BOOLEAN, create : BOOLEAN,
     truncate : BOOLEAN]

GuestOpenOptions_new ==
    [read |-> FALSE, write |-> FALSE, append |-> FALSE, create |-> FALSE,
     truncate |-> FALSE]

\* std::fs::File::options().read(..)...open(host_path): the open as the host
\* sees it.
HostOpen(host_path, read, write, append, create, truncate) ==
    [host_path |-> host_path, read |-> read, write |-> write,
     append |-> append, create |-> create, truncate |-> truncate]

\* std::fs::read and std::fs::File::open: a read-only open.
HostOpenReadOnly(host_path) ==
    HostOpen(host_path, TRUE, FALSE, FALSE, FALSE, FALSE)

\* std::path::is_separator on a Unix host.
is_separator(c) == c = "/"

(***************************************************************************)
(* Fs: the outcome of each operation on the tree `r' with current          *)
(* directory `cwd'.  An outcome is the value returned ("Ok", "Err", or     *)
(* "Panic" when the call aborts the process), the tree afterwards, the     *)
(* host opens performed and the guest paths inserted.  `host_ok' is the    *)
(* host's answer to the open, should one be made.                          *)
(***************************************************************************)
Outcome(ret, r, opens, inserted) ==
    [ret |-> ret, root |-> r, host_open |-> opens, inserted |-> inserted]

\* handle_open_err
handle_open_err(host_ok) == IF host_ok THEN "Ok" ELSE "Panic"

read_outcome(r, cwd, path, host_ok) ==
    LET node == lookup_node(r, cwd, path)
    IN  IF node = None THEN Outcome("Err", r, {}, {})
        ELSE IF node[1].kind # "File" THEN Outcome("Err", r, {}, {})
        ELSE Outcome(handle_open_err(host_ok), r,
                     {HostOpenReadOnly(node[1].host_path)}, {})

open_outcome(r, cwd, path, host_ok) ==
    LET node == lookup_node(r, cwd, path)
    IN  IF node = None THEN Outcome("Err", r, {}, {})
        ELSE IF node[1].kind # "File" THEN Outcome("Err", r, {}, {})
        ELSE Outcome(handle_open_err(host_ok), r,
                     {HostOpenReadOnly(node[1].host_path)}, {})

\* The tree with `node' stored under `name' in the directory at `at' (the
\* effect of children.insert through the &mut the lookup returned).
RECURSIVE insert_at(_, _, _, _)
insert_at(r, at, name, node) ==
    IF at = <<>>
    THEN [r EXCEPT !.children = (name :> node) @@ @]
    ELSE [r EXCEPT !.children[Head(at)] = insert_at(@, Tail(at), name, node)]

\* A bug the creation could have: the new node is never stored.
insert_new_file_dropped(r, at, name, host_path) == r

\* A bug the creation could have: the new node replaces the directory's
\* other children.
RECURSIVE replace_children_at(_, _, _, _)
replace_children_at(r, at, name, node) ==
    IF at = <<>>
    THEN [r EXCEPT !.children = (name :> node)]
    ELSE [r EXCEPT !.children[Head(at)] =
                      replace_children_at(@, Tail(at), name, node)]

insert_new_file_replacing(r, at, name, host_path) ==
    replace_children_at(r, at, name, FsNode_File(host_path, TRUE))

\* A bug the creation could have: the new node is not writeable.
insert_new_file_read_only(r, at, name, host_path) ==
    insert_at(r, at, name, FsNode_File(host_path, FALSE))

\* fs.rs:521-527: the created file becomes a writeable File child.
insert_new_file(r, at, name, host_path) ==
    insert_at(r, at, name, FsNode_File(host_path, TRUE))

\* A bug the denial could have: append is let through.
existing_file_denied_write_only(existing_file, options) ==
    ~existing_file.writeable /\ options.write

\* fs.rs:471: a file that is not writeable is not opened for writing.
existing_file_denied(existing_file, options) ==
    ~existing_file.writeable /\ (options.append \/ options.write)

\* A bug the option check could have: truncate is not covered by it.
options_valid_truncate_unchecked(options) ==
    ~options.create \/ options.write \/ options.append

\* the assert of fs.rs:450
options_valid(options) ==
    (~options.truncate /\ ~options.create) \/ options.write \/ options.append

open_with_options_outcome(r, cwd, path, options, host_ok) ==
    IF ~options_valid(options) THEN Outcome("Panic", r, {}, {})
    ELSE
    LET found == lookup_parent_node(r, cwd, path)
    IN  IF found = None THEN Outcome("Err", r, {}, {})
        ELSE
        LET parent_node == found[1].node
            new_filename == found[1].final_component
        IN  IF parent_node.kind # "Directory" THEN Outcome("Err", r, {}, {})
            ELSE IF new_filename \in DOMAIN parent_node.children
            THEN \* Open an existing file if possible
                LET existing_file == parent_node.children[new_filename]
                IN  IF existing_file.kind # "File" THEN Outcome("Err", r, {}, {})
                    ELSE IF existing_file_denied(existing_file, options)
                    THEN Outcome("Err", r, {}, {})
                    ELSE Outcome(handle_open_err(host_ok), r,
                                 {HostOpen(existing_file.host_path, options.read,
                                           options.write, options.append, FALSE,
                                           options.truncate)}, {})
            ELSE \* Create a new file otherwise
                IF ~options.create THEN Outcome("Err", r, {}, {})
                ELSE IF parent_node.writeable = None THEN Outcome("Err", r, {}, {})
                ELSE IF \E i \in 1..Len(new_filename) : is_separator(new_filename[i])
                THEN Outcome("Panic", r, {}, {})
                ELSE
                LET host_path == host_join(parent_node.writeable[1], new_filename)
                    opened == {HostOpen(host_path, options.read, options.write,
                                        options.append, options.create,
                                        options.truncate)}
                IN  IF ~host_ok THEN Outcome("Panic", r, opened, {})
                    ELSE Outcome("Ok",
                                 insert_new_file(r, found[1].at, new_filename,
                                                 host_path),
                                 opened,
                                 {Append(found[1].at, new_filename)})

(***************************************************************************)
(* Fs: the operations, called one at a time by the guest's single thread.  *)
(* A call runs to completion (fs_pc = "returned", or "aborted" after a     *)
(* panic, which ends the process); FsReturn is the caller taking the       *)
(* result.                                                                 *)
(***************************************************************************)
NoCall == [op |-> "none", path |-> <<>>, options |-> GuestOpenOptions_new]

Call(op, path, options) == [op |-> op, path |-> path, options |-> options]

\* What a call returned: its kind and, for home_directory, the path.
Ret(kind, path) == [kind |-> kind, path |-> path]

\* The path arguments drawn: a prefix followed by a short run of symbols.

Prefixes ==
    { <<>>,
      <<"Documents", "/">>,
      <<"Demo.app", "/">> }

\* One `..' more than the current directory is deep, then a bundled library.
DotDotPath ==
    <<".", ".", "/", ".", ".", "/", ".", ".", "/", ".", ".", "/",
      "usr", "/", "lib", "/", "libgcc_s.1.dylib">>

FixedPaths ==
    { <<"Documents", "/", "save">>,
      <<"Documents", "/", "sub", "/", "f">>,
      <<"Demo.app", "/", "Resources", "/", "f">>,
      <<"Demo.app", "/", "f", "/", "f">>,
      <<"Documents", "/", ".", ".", "/", ".", ".", "/", "etc", "/", "passwd">>,
      <<".", ".", "/", ".", ".", "/", ".", ".">>,
      home_directory_new \o <<"/", "Documents", "/", "f">>,
      <<"/", "usr", "/", "lib", "/", "f">>,
      <<"/", "usr", "/", "lib", "/", "libgcc_s.1.dylib">>,
      <<"/", "usr", "/", "lib", "/", "libstdc++.6.dylib">>,
      <<"/", "usr", "/", "lib", "/", "libstdc++.6.0.4.dylib">>,
      DotDotPath }

Tails == SeqsUpTo(Alphabet, MaxTailLen)

Paths == {pre \o tail : pre \in Prefixes, tail \in Tails} \cup FixedPaths

Finish(call, out) ==
    /\ fs_pc' = IF out.ret = "Panic" THEN "aborted" ELSE "returned"
    /\ fs_call' = call
    /\ fs_ret' = Ret(out.ret, <<>>)
    /\ root' = out.root
    /\ host_open' = out.host_open
    /\ created' = created \cup out.inserted
    /\ Cardinality(created') <= MaxCreated
    /\ UNCHANGED <<current_directory, home_directory>>

home_directory_get ==
    /\ fs_pc = "idle"
    /\ fs_pc' = "returned"
    /\ fs_call' = Call("home_directory", <<>>, GuestOpenOptions_new)
    /\ fs_ret' = Ret("Path", home_directory)
    /\ host_open' = {}
    /\ UNCHANGED <<root, current_directory, home_directory, created>>

is_file_call(path) ==
    /\ fs_pc = "idle"
    /\ Finish(Call("is_file", path, GuestOpenOptions_new),
              Outcome(IF is_file(root, current_directory, path)
                      THEN "True" ELSE "False", root, {}, {}))

\* The host answers an open, when the call makes one, with a handle or with
\* an I/O error.
read(path) ==
    /\ fs_pc = "idle"
    /\ LET out == read_outcome(root, current_directory, path, TRUE)
       IN  \/ Finish(Call("read", path, GuestOpenOptions_new), out)
           \/ /\ out.host_open # {}
              /\ Finish(Call("read", path, GuestOpenOptions_new),
                        read_outcome(root, current_directory, path, FALSE))

open(path) ==
    /\ fs_pc = "idle"
    /\ LET out == open_outcome(root, current_directory, path, TRUE)
       IN  \/ Finish(Call("open", path, GuestOpenOptions_new), out)
           \/ /\ out.host_open # {}
              /\ Finish(Call("open", path, GuestOpenOptions_new),
                        open_outcome(root, current_directory, path, FALSE))

open_with_options(path, options) ==
    /\ fs_pc = "idle"
    /\ LET out == open_with_options_outcome(root, current_directory, path,
                                            options, TRUE)
       IN  \/ Finish(Call("open_with_options", path, options), out)
           \/ /\ out.host_open # {}
              /\ Finish(Call("open_with_options", path, options),
                        open_with_options_outcome(root, current_directory, path,
                                                  options, FALSE))

FsReturn ==
    /\ fs_pc = "returned"
    /\ fs_pc' = "idle"
    /\ fs_call' = NoCall
    /\ fs_ret' = Ret("none", <<>>)
    /\ host_open' = {}
    /\ UNCHANGED <<root, current_directory, home_directory, created>>


(***************************************************************************)
(* resolve_path on drawn inputs: a call, then the resolution of the        *)
(* result's own string form against another current directory.             *)
(***************************************************************************)
PathInputs == SeqsUpTo(Alphabet, MaxTailLen + 1)
CwdInputs == SeqsUpTo(Alphabet, MaxCwdLen)

resolve_call(path, relative_to) ==
    /\ rp_pc = "idle"
    /\ rp_pc' = IF resolve_path_panics(path, Some(relative_to))
                THEN "aborted" ELSE "resolved"
    /\ rp_path' = path
    /\ rp_relative_to' = relative_to
    /\ rp_ret' = IF resolve_path_panics(path, Some(relative_to))
                 THEN <<>> ELSE resolve_path(path, Some(relative_to))
    /\ UNCHANGED rp_again

resolve_again(relative_to) ==
    /\ rp_pc = "resolved"
    /\ rp_pc' = "reresolved"
    /\ rp_again' = resolve_path(string_form(rp_ret), Some(relative_to))
    /\ UNCHANGED <<rp_path, rp_relative_to, rp_ret>>

resolve_return ==
    /\ rp_pc = "reresolved"
    /\ rp_pc' = "idle"
    /\ rp_path' = <<>>
    /\ rp_relative_to' = <<>>
    /\ rp_ret' = <<>>
    /\ rp_again' = <<>>

(***************************************************************************)
(* Guest memory and GenericChar<T>                                         *)
(*                                                                         *)
(* Guest memory maps the addresses 1..MemSize to code units; Ptr::null()   *)
(* is address 0.  A function that reads or writes outside 1..MemSize       *)
(* leaves the guest-memory layer's domain: the call ends as a "fault"      *)
(* and does not return.  An outcome records whether the function returned, *)
(* its result, the memory afterwards, and the offsets it read through its  *)
(* first and second read pointer (r1, r2) and wrote through dest (w).      *)
(***************************************************************************)
Addr == 1..MemSize
Unit == 0..MaxUnit
NullPtr == 0

\* GenericChar::null(): T's default value
null == 0

InMem(ptr) == ptr \in Addr

\* the pointers a guest can pass: the null pointer and every address
Ptrs == {NullPtr} \cup Addr

Returned(ret, m, r1, r2, w) ==
    [status |-> "returned", ret |-> ret, mem |-> m, r1 |-> r1, r2 |-> r2, w |-> w]

Fault(m, r1, r2, w) ==
    [status |-> "fault", ret |-> 0, mem |-> m, r1 |-> r1, r2 |-> r2, w |-> w]

RECURSIVE strlen_loop(_, _, _)
strlen_loop(m, s, i) ==
    IF ~InMem(s + i) THEN Fault(m, 0..(i - 1), {}, {})
    ELSE IF m[s + i] # null THEN strlen_loop(m, s, i + 1)
    ELSE Returned(i, m, 0..i, {}, {})

strlen(m, s) == strlen_loop(m, s, 0)

\* A bug a copy could have: the loop ends before the terminator is stored.
RECURSIVE strcpy_loop_no_terminator(_, _, _, _)
strcpy_loop_no_terminator(m, dest, src, i) ==
    IF ~InMem(src + i) THEN Fault(m, 0..(i - 1), {}, 0..(i - 1))
    ELSE LET c == m[src + i]
         IN  IF c = null THEN Returned(dest, m, 0..i, {}, 0..(i - 1))
             ELSE IF ~InMem(dest + i) THEN Fault(m, 0..i, {}, 0..(i - 1))
             ELSE strcpy_loop_no_terminator([m EXCEPT ![dest + i] = c],
                                            dest, src, i + 1)

\* The loop of strcpy after i units: dest and src have both advanced by i.
RECURSIVE strcpy_loop(_, _, _, _)
strcpy_loop(m, dest, src, i) ==
    IF ~InMem(src + i) THEN Fault(m, 0..(i - 1), {}, 0..(i - 1))
    ELSE LET c == m[src + i]
         IN  IF ~InMem(dest + i) THEN Fault(m, 0..i, {}, 0..(i - 1))
             ELSE LET m2 == [m EXCEPT ![dest + i] = c]
                  IN  IF c = null THEN Returned(dest, m2, 0..i, {}, 0..i)
                      ELSE strcpy_loop(m2, dest, src, i + 1)

strcpy(m, dest, src) == strcpy_loop(m, dest, src, 0)

\* A bug a bounded copy could have: the terminator ends the loop, and the
\* rest of dest is left as it was.
RECURSIVE strncpy_loop_no_padding(_, _, _, _, _, _, _)
strncpy_loop_no_padding(m, dest, src, size, i, end, r1) ==
    IF i >= size \/ end THEN Returned(dest, m, r1, {}, 0..(i - 1))
    ELSE IF ~InMem(src + i) THEN Fault(m, r1, {}, 0..(i - 1))
    ELSE LET c == m[src + i]
         IN  IF ~InMem(dest + i) THEN Fault(m, r1 \cup {i}, {}, 0..(i - 1))
             ELSE strncpy_loop_no_padding([m EXCEPT ![dest + i] = c], dest, src,
                                          size, i + 1, c = null, r1 \cup {i})

\* The for loop of strncpy at index i.
RECURSIVE strncpy_loop(_, _, _, _, _, _, _)
strncpy_loop(m, dest, src, size, i, end, r1) ==
    IF i >= size THEN Returned(dest, m, r1, {}, 0..(i - 1))
    ELSE IF ~end
    THEN IF ~InMem(src + i) THEN Fault(m, r1, {}, 0..(i - 1))
         ELSE LET c == m[src + i]
              IN  IF ~InMem(dest + i) THEN Fault(m, r1 \cup {i}, {}, 0..(i - 1))
                  ELSE strncpy_loop([m EXCEPT ![dest + i] = c], dest, src, size,
                                    i + 1, c = null, r1 \cup {i})
    ELSE IF ~InMem(dest + i) THEN Fault(m, r1, {}, 0..(i - 1))
         ELSE strncpy_loop([m EXCEPT ![dest + i] = null], dest, src, size,
                           i + 1, end, r1)

strncpy(m, dest, src, size) == strncpy_loop(m, dest, src, size, 0, FALSE, {})

\* A bug a comparison could have: the difference of the units is returned.
RECURSIVE strcmp_loop_difference(_, _, _, _)
strcmp_loop_difference(m, a, b, offset) ==
    IF ~InMem(a + offset) THEN Fault(m, 0..(offset - 1), 0..(offset - 1), {})
    ELSE IF ~InMem(b + offset) THEN Fault(m, 0..offset, 0..(offset - 1), {})
    ELSE LET char_a == m[a + offset]
             char_b == m[b + offset]
         IN  IF char_a # char_b
             THEN Returned(char_a - char_b, m, 0..offset, 0..offset, {})
             ELSE IF char_a = null THEN Returned(0, m, 0..offset, 0..offset, {})
             ELSE strcmp_loop_difference(m, a, b, offset + 1)

\* The loop of strcmp at `offset'.
RECURSIVE strcmp_loop(_, _, _, _)
strcmp_loop(m, a, b, offset) ==
    IF ~InMem(a + offset) THEN Fault(m, 0..(offset - 1), 0..(offset - 1), {})
    ELSE IF ~InMem(b + offset) THEN Fault(m, 0..offset, 0..(offset - 1), {})
    ELSE LET char_a == m[a + offset]
             char_b == m[b + offset]
         IN  IF char_a < char_b THEN Returned(-1, m, 0..offset, 0..offset, {})
             ELSE IF char_a > char_b THEN Returned(1, m, 0..offset, 0..offset, {})
             ELSE IF char_a = null THEN Returned(0, m, 0..offset, 0..offset, {})
             ELSE strcmp_loop(m, a, b, offset + 1)

strcmp(m, a, b) == strcmp_loop(m, a, b, 0)

\* A bug a bounded comparison could have: the limit is tested one unit late.
RECURSIVE strncmp_loop_late_limit(_, _, _, _, _)
strncmp_loop_late_limit(m, a, b, n, offset) ==
    IF ~InMem(a + offset) THEN Fault(m, 0..(offset - 1), 0..(offset - 1), {})
    ELSE IF ~InMem(b + offset) THEN Fault(m, 0..offset, 0..(offset - 1), {})
    ELSE LET char_a == m[a + offset]
             char_b == m[b + offset]
         IN  IF char_a < char_b THEN Returned(-1, m, 0..offset, 0..offset, {})
             ELSE IF char_a > char_b THEN Returned(1, m, 0..offset, 0..offset, {})
             ELSE IF offset = n \/ char_a = null
                  THEN Returned(0, m, 0..offset, 0..offset, {})
             ELSE strncmp_loop_late_limit(m, a, b, n, offset + 1)

\* The loop of strncmp at `offset'; the code adds 1 to offset between the
\* reads and the test against n.
RECURSIVE strncmp_loop(_, _, _, _, _)
strncmp_loop(m, a, b, n, offset) ==
    IF ~InMem(a + offset) THEN Fault(m, 0..(offset - 1), 0..(offset - 1), {})
    ELSE IF ~InMem(b + offset) THEN Fault(m, 0..offset, 0..(offset - 1), {})
    ELSE LET char_a == m[a + offset]
             char_b == m[b + offset]
         IN  IF char_a < char_b THEN Returned(-1, m, 0..offset, 0..offset, {})
             ELSE IF char_a > char_b THEN Returned(1, m, 0..offset, 0..offset, {})
             ELSE IF offset + 1 = n \/ char_a = null
                  THEN Returned(0, m, 0..offset, 0..offset, {})
             ELSE strncmp_loop(m, a, b, n, offset + 1)

strncmp(m, a, b, n) ==
    IF n = 0 THEN Returned(0, m, {}, {}, {})
    ELSE strncmp_loop(m, a, b, n, 0)

\* A bug a search could have: after a mismatch the search resumes behind
\* the units already compared.
RECURSIVE strstr_loop_skipping(_, _, _, _, _, _, _)
strstr_loop_skipping(m, string, substring, offset, inner_offset, r1, r2) ==
    IF ~InMem(string + offset + inner_offset) THEN Fault(m, r1, r2, {})
    ELSE IF ~InMem(substring + inner_offset)
    THEN Fault(m, r1 \cup {offset + inner_offset}, r2, {})
    ELSE LET char_string == m[string + offset + inner_offset]
             char_substring == m[substring + inner_offset]
             r1b == r1 \cup {offset + inner_offset}
             r2b == r2 \cup {inner_offset}
         IN  IF char_substring = null
             THEN Returned(string + offset, m, r1b, r2b, {})
             ELSE IF char_string = null THEN Returned(NullPtr, m, r1b, r2b, {})
             ELSE IF char_string # char_substring
             THEN strstr_loop_skipping(m, string, substring,
                                       offset + inner_offset + 1, 0, r1b, r2b)
             ELSE strstr_loop_skipping(m, string, substring, offset,
                                       inner_offset + 1, r1b, r2b)

\* The two loops of strstr at `offset' and `inner_offset'.
RECURSIVE strstr_loop(_, _, _, _, _, _, _)
strstr_loop(m, string, substring, offset, inner_offset, r1, r2) ==
    IF ~InMem(string + offset + inner_offset) THEN Fault(m, r1, r2, {})
    ELSE IF ~InMem(substring + inner_offset)
    THEN Fault(m, r1 \cup {offset + inner_offset}, r2, {})
    ELSE LET char_string == m[string + offset + inner_offset]
             char_substring == m[substring + inner_offset]
             r1b == r1 \cup {offset + inner_offset}
             r2b == r2 \cup {inner_offset}
         IN  IF char_substring = null
             THEN Returned(string + offset, m, r1b, r2b, {})
             ELSE IF char_string = null THEN Returned(NullPtr, m, r1b, r2b, {})
             ELSE IF char_string # char_substring
             THEN strstr_loop(m, string, substring, offset + 1, 0, r1b, r2b)
             ELSE strstr_loop(m, string, substring, offset, inner_offset + 1,
                              r1b, r2b)

strstr(m, string, substring) == strstr_loop(m, string, substring, 0, 0, {}, {})

(***************************************************************************)
(* The guest: it stores units in memory and calls the string functions,    *)
(* one at a time.  A call that returns leaves str_pc = "returned"; a call  *)
(* that faults ends the run (str_pc = "aborted").                          *)
(***************************************************************************)
NoStrCall == [fn |-> "none", p |-> 0, q |-> 0, n |-> 0]
NoStrOut == [status |-> "none", ret |-> 0, r1 |-> {}, r2 |-> {}, w |-> {}]

StrCall(fn, p, q, n) == [fn |-> fn, p |-> p, q |-> q, n |-> n]

StrFinish(call, out) ==
    /\ str_pc' = IF out.status = "fault" THEN "aborted" ELSE "returned"
    /\ str_call' = call
    /\ str_mem0' = mem
    /\ mem' = out.mem
    /\ str_out' = [status |-> out.status, ret |-> out.ret, r1 |-> out.r1,
                   r2 |-> out.r2, w |-> out.w]

guest_store(ptr, unit) ==
    /\ str_pc = "idle"
    /\ mem' = [mem EXCEPT ![ptr] = unit]
    /\ str_mem0' = mem'
    /\ UNCHANGED <<str_pc, str_call, str_out>>

strlen_call(s) ==
    /\ str_pc = "idle"
    /\ StrFinish(StrCall("strlen", s, 0, 0), strlen(mem, s))

strcpy_call(dest, src) ==
    /\ str_pc = "idle"
    /\ StrFinish(StrCall("strcpy", dest, src, 0), strcpy(mem, dest, src))

strncpy_call(dest, src, size) ==
    /\ str_pc = "idle"
    /\ StrFinish(StrCall("strncpy", dest, src, size),
                 strncpy(mem, dest, src, size))

strcmp_call(a, b) ==
    /\ str_pc = "idle"
    /\ StrFinish(StrCall("strcmp", a, b, 0), strcmp(mem, a, b))

strncmp_call(a, b, n) ==
    /\ str_pc = "idle"
    /\ StrFinish(StrCall("strncmp", a, b, n), strncmp(mem, a, b, n))

strstr_call(string, substring) ==
    /\ str_pc = "idle"
    /\ StrFinish(StrCall("strstr", string, substring, 0),
                 strstr(mem, string, substring))

str_return ==
    /\ str_pc = "returned"
    /\ str_pc' = "idle"
    /\ str_call' = NoStrCall
    /\ str_out' = NoStrOut
    /\ str_mem0' = mem
    /\ UNCHANGED mem

(***************************************************************************)
(* Specifications                                                          *)
(***************************************************************************)
InitFsVars ==
    /\ root = Fs_new.root
    /\ current_directory = Fs_new.current_directory
    /\ home_directory = Fs_new.home_directory
    /\ fs_pc = "idle"
    /\ fs_call = NoCall
    /\ fs_ret = Ret("none", <<>>)
    /\ host_open = {}
    /\ created = {}

InitRpVars ==
    /\ rp_pc = "idle"
    /\ rp_path = <<>>
    /\ rp_relative_to = <<>>
    /\ rp_ret = <<>>
    /\ rp_again = <<>>

InitStrVars ==
    /\ mem = [a \in Addr |-> null]
    /\ str_pc = "idle"
    /\ str_call = NoStrCall
    /\ str_mem0 = [a \in Addr |-> null]
    /\ str_out = NoStrOut

Init == InitFsVars /\ InitRpVars /\ InitStrVars

\* The guest filesystem under every sequence of calls.
NextFs ==
    \/ home_directory_get /\ UNCHANGED <<rp_vars, str_vars>>
    \/ /\ fs_pc = "idle"
       /\ \E path \in Paths : is_file_call(path)
       /\ UNCHANGED <<rp_vars, str_vars>>
    \/ /\ fs_pc = "idle"
       /\ \E path \in Paths : read(path)
       /\ UNCHANGED <<rp_vars, str_vars>>
    \/ /\ fs_pc = "idle"
       /\ \E path \in Paths : open(path)
       /\ UNCHANGED <<rp_vars, str_vars>>
    \/ /\ fs_pc = "idle"
       /\ \E path \in Paths, options \in GuestOpenOptions :
             open_with_options(path, options)
       /\ UNCHANGED <<rp_vars, str_vars>>
    \/ FsReturn /\ UNCHANGED <<rp_vars, str_vars>>

SpecFs == Init /\ [][NextFs]_vars

\* resolve_path on every drawn path and current directory.
NextResolve ==
    \/ /\ rp_pc = "idle"
       /\ \E path \in PathInputs, relative_to \in CwdInputs :
             resolve_call(path, relative_to)
       /\ UNCHANGED <<fs_vars, str_vars>>
    \/ /\ rp_pc = "resolved"
       /\ \E relative_to \in CwdInputs : resolve_again(relative_to)
       /\ UNCHANGED <<fs_vars, str_vars>>
    \/ resolve_return /\ UNCHANGED <<fs_vars, str_vars>>

SpecResolve == Init /\ [][NextResolve]_vars

\* The string functions on every memory the guest can build.
NextStr ==
    \/ /\ str_pc = "idle"
       /\ \E ptr \in Addr, unit \in Unit : guest_store(ptr, unit)
       /\ UNCHANGED <<fs_vars, rp_vars>>
    \/ /\ str_pc = "idle"
       /\ \E s \in Addr : strlen_call(s)
       /\ UNCHANGED <<fs_vars, rp_vars>>
    \/ /\ str_pc = "idle"
       /\ \E dest \in Addr, src \in Addr : strcpy_call(dest, src)
       /\ UNCHANGED <<fs_vars, rp_vars>>
    \/ /\ str_pc = "idle"
       /\ \E dest \in Addr, src \in Addr, size \in 0..MemSize :
             strncpy_call(dest, src, size)
       /\ UNCHANGED <<fs_vars, rp_vars>>
    \/ /\ str_pc = "idle"
       /\ \E a \in Addr, b \in Addr : strcmp_call(a, b)
       /\ UNCHANGED <<fs_vars, rp_vars>>
    \/ /\ str_pc = "idle"
       /\ \E a \in Ptrs, b \in Ptrs, n \in 0..MemSize : strncmp_call(a, b, n)
       /\ UNCHANGED <<fs_vars, rp_vars>>
    \/ /\ str_pc = "idle"
       /\ \E string \in Addr, substring \in Addr : strstr_call(string, substring)
       /\ UNCHANGED <<fs_vars, rp_vars>>
    \/ str_return /\ UNCHANGED <<fs_vars, rp_vars>>

SpecStr == Init /\ [][NextStr]_vars


(***************************************************************************)
(* The node tree, flattened: one entry per node, with the components that  *)
(* lead to it from the root.                                               *)
(***************************************************************************)
Entry(path, node) ==
    [path |-> path,
     kind |-> node.kind,
     host_path |-> IF node.kind = "File" THEN Some(node.host_path) ELSE None,
     file_writeable |-> node.kind = "File" /\ node.writeable,
     dir_writeable |-> IF node.kind = "Directory" THEN node.writeable ELSE None]

RECURSIVE NodesFrom(_, _)
NodesFrom(node, path) ==
    {Entry(path, node)} \cup
    IF node.kind # "Directory" THEN {}
    ELSE UNION {NodesFrom(node.children[name], Append(path, name)) :
                name \in DOMAIN node.children}

Nodes(r) == NodesFrom(r, <<>>)

NodeAt(r, path) == {e \in Nodes(r) : e.path = path}

IsPrefix(s, t) == Len(s) <= Len(t) /\ SubSeq(t, 1, Len(s)) = s

(***************************************************************************)
(* C1.  When open_with_options, called with create set, returns a host     *)
(* handle, is_file of the same path is true in the state it returns in;    *)
(* and no step of the filesystem makes is_file false for a path for which  *)
(* it was true.  Hence is_file of that path is true after every further    *)
(* sequence of calls.                                                      *)
(***************************************************************************)
C1_CreatedFileStaysVisible ==
    [][ /\ ( /\ fs_pc' = "returned"
             /\ fs_call'.op = "open_with_options"
             /\ fs_call'.options.create
             /\ fs_ret'.kind = "Ok" )
           => is_file(root', current_directory', fs_call'.path)
        /\ \/ root' = root /\ current_directory' = current_directory
           \/ \A p \in Paths :
                 is_file(root, current_directory, p)
                 => is_file(root', current_directory', p)
      ]_vars

\* A later is_file call answers true for a path open_with_options created.
C1_Witness ==
    /\ fs_pc = "returned"
    /\ fs_call.op = "is_file"
    /\ fs_ret.kind = "True"
    /\ resolve_path(fs_call.path, Some(current_directory)) \in created

(***************************************************************************)
(* C2.  In every reachable state, every File node open_with_options        *)
(* inserted is writeable, and every File node that the read-only scan of   *)
(* the bundle or the fixed /usr/lib layout produced is still a File that   *)
(* is not writeable.                                                       *)
(***************************************************************************)
bundle_guest_components ==
    <<<<"User">>, <<"Applications">>, FAKE_UUID, bundle_dir_name>>

ReadOnlyAtConstruction ==
    {e.path : e \in {n \in Nodes(Fs_new.root) :
                        /\ n.kind = "File"
                        /\ \/ IsPrefix(bundle_guest_components, n.path)
                           \/ IsPrefix(<<<<"usr">>, <<"lib">>>>, n.path)}}

C2_Writeability ==
    LET files == {e \in Nodes(root) : e.kind = "File"}
    IN  /\ \A p \in created :
              \E e \in files : e.path = p /\ e.file_writeable
        /\ \A p \in ReadOnlyAtConstruction :
              \E e \in files : e.path = p /\ ~e.file_writeable

\* A file has been created while the five read-only files are in the tree.
C2_Witness ==
    /\ created # {}
    /\ Cardinality(ReadOnlyAtConstruction) = 5
    /\ fs_call.op = "open_with_options"
    /\ fs_ret.kind = "Err"

(***************************************************************************)
(* C3.  Every host path a call opens is the host_path of a File node of    *)
(* the tree the call started on, or the host directory of a writeable      *)
(* Directory node of that tree joined with one final name (not empty, not  *)
(* `.', not `..', holding no separator); and it lies below one of the      *)
(* host directories the tree maps.                                         *)
(***************************************************************************)
HostRoots == {bundle_host_path, dylibs_host_path, documents_host_path}

SingleName(name) ==
    /\ name \notin {<<>>, <<".">>, <<".", ".">>}
    /\ \A i \in 1..Len(name) : name[i] # "/"

C3_HostPathsInsideTree ==
    [][ \A h \in host_open' :
          /\ \/ \E e \in Nodes(root) :
                   e.kind = "File" /\ e.host_path = Some(h.host_path)
             \/ \E e \in Nodes(root) :
                   /\ e.kind = "Directory"
                   /\ e.dir_writeable # None
                   /\ Len(h.host_path) > 0
                   /\ pop(h.host_path) = e.dir_writeable[1]
                   /\ SingleName(h.host_path[Len(h.host_path)])
          /\ \E hr \in HostRoots :
                IsPrefix(hr, h.host_path) /\ Len(h.host_path) > Len(hr)
      ]_vars

\* A path with more `..' than the current directory is deep opened a
\* bundled library.
C3_Witness ==
    /\ fs_call.path = DotDotPath
    /\ fs_ret.kind = "Ok"
    /\ \E h \in host_open :
          h.host_path = host_join(dylibs_host_path, <<"libgcc_s.1.dylib">>)

(***************************************************************************)
(* C4.  A call of open_with_options whose options pass the option check    *)
(* and whose path is one of the expected guest errors returns not-found,   *)
(* opens nothing on the host and leaves the tree as it was.                *)
(***************************************************************************)
ExpectedGuestError(r, cwd, path, options) ==
    LET components == resolve_path(path, Some(cwd))
        parent == NodeAt(r, pop(components))
        child == NodeAt(r, components)
        parent_is_dir == \E e \in parent : e.kind = "Directory"
    IN  \/ components = <<>>
        \/ parent = {}
        \/ \E e \in parent : e.kind = "File"
        \/ parent_is_dir /\ \E e \in child : e.kind = "Directory"
        \/ /\ parent_is_dir
           /\ \E e \in child : e.kind = "File" /\ ~e.file_writeable
           /\ options.write \/ options.append
        \/ parent_is_dir /\ child = {} /\ ~options.create
        \/ /\ child = {}
           /\ options.create
           /\ \E e \in parent : e.kind = "Directory" /\ e.dir_writeable = None

C4_ExpectedErrorsAreNotFound ==
    [][ ( /\ fs_pc = "idle"
          /\ fs_call'.op = "open_with_options"
          /\ options_valid(fs_call'.options)
          /\ ExpectedGuestError(root, current_directory, fs_call'.path,
                                fs_call'.options) )
        => /\ fs_ret'.kind = "Err"
           /\ host_open' = {}
           /\ root' = root
      ]_vars

\* Appending to the bundle's read-only file was answered not-found.
C4_Witness ==
    /\ fs_call.op = "open_with_options"
    /\ fs_call.path = <<"Demo.app", "/", "f">>
    /\ fs_call.options.append
    /\ ~fs_call.options.write
    /\ fs_ret.kind = "Err"
    /\ host_open = {}

(***************************************************************************)
(* C5.  home_directory, is_file, read and open never change the tree; a    *)
(* call of open_with_options that changes it adds exactly one File node,   *)
(* under a writeable Directory that had no child of that name, and leaves  *)
(* every other node as it was; the current directory and the home          *)
(* directory never change.                                                 *)
(***************************************************************************)
C5_Frame ==
    [][ /\ current_directory' = current_directory
        /\ home_directory' = home_directory
        /\ fs_call'.op \in {"home_directory", "is_file", "read", "open", "none"}
           => root' = root
        /\ root' # root =>
           /\ fs_call'.op = "open_with_options"
           /\ \E n \in Nodes(root') :
                 /\ Nodes(root') = Nodes(root) \cup {n}
                 /\ NodeAt(root, n.path) = {}
                 /\ n.kind = "File"
                 /\ Len(n.path) > 0
                 /\ \E d \in NodeAt(root, pop(n.path)) :
                       d.kind = "Directory" /\ d.dir_writeable # None
      ]_vars

\* open_with_options with create has opened a file that was already there.
C5_Witness ==
    /\ fs_call.op = "open_with_options"
    /\ fs_call.options.create
    /\ fs_ret.kind = "Ok"
    /\ \E h \in host_open : ~h.create
    /\ resolve_path(fs_call.path, Some(current_directory)) \in created


(***************************************************************************)
(* C6.  Whenever resolve_path returns, its result holds no component that  *)
(* is empty, `.' or `..'; and resolving the result's string form ("/"      *)
(* followed by the components joined by "/"), against any current          *)
(* directory, returns the same component list.                             *)
(***************************************************************************)
C6_ResolveCanonicalAndIdempotent ==
    /\ rp_pc \in {"resolved", "reresolved"}
       => \A i \in 1..Len(rp_ret) : rp_ret[i] \notin {<<>>, <<".">>, <<".", ".">>}
    /\ rp_pc = "reresolved" => rp_again = rp_ret

\* A relative path with a `.' was resolved against a current directory
\* with an empty component, and resolved again.
C6_Witness ==
    /\ rp_pc = "reresolved"
    /\ rp_path = <<".", "/", "f">>
    /\ rp_relative_to = <<"/", "f", "/">>
    /\ rp_ret = << <<"f">>, <<"f">> >>
    /\ rp_again = rp_ret


(***************************************************************************)
(* Strings in guest memory, as the claims speak of them.                   *)
(***************************************************************************)
\* s points at a zero-terminated string of memory m
Terminated(m, s) == \E a \in s..MemSize : m[a] = null

\* the offset of the first terminator of the string at s
Length(m, s) ==
    CHOOSE i \in 0..(MemSize - s) :
        m[s + i] = null /\ \A j \in 0..(i - 1) : m[s + j] # null

Min(S) == CHOOSE x \in S : \A y \in S : x <= y

(***************************************************************************)
(* C7.  As claimed: for every zero-terminated src and every placement of   *)
(* dest whose units dest[0..=strlen(src)] lie in guest memory, dest        *)
(* regions that overlap src included, strcpy(dest, src) returns dest, and  *)
(* afterwards strlen(dest) is the strlen(src) measured before the call and *)
(* dest[0..=strlen(src)] are the original units of src.                    *)
(***************************************************************************)
StrcpyPost ==
    LET dest == str_call.p
        src == str_call.q
        len == Length(str_mem0, src)
    IN  /\ str_out.status = "returned"
        /\ str_out.ret = dest
        /\ Terminated(mem, dest)
        /\ Length(mem, dest) = len
        /\ \A i \in 0..len : mem[dest + i] = str_mem0[src + i]

C7_Original ==
    ( /\ str_call.fn = "strcpy"
      /\ Terminated(str_mem0, str_call.q)
      /\ str_call.p + Length(str_mem0, str_call.q) <= MemSize )
    => StrcpyPost

(***************************************************************************)
(* C7, amended.  The same, for every placement of dest that does not lie   *)
(* inside src's string behind its first unit: dest <= src, or              *)
(* dest > src + strlen(src).  (A dest with src < dest <= src + strlen(src) *)
(* overwrites the terminator before it is read, and the copy runs on.)     *)
(***************************************************************************)
C7_StrcpyCopies ==
    ( /\ str_call.fn = "strcpy"
      /\ Terminated(str_mem0, str_call.q)
      /\ str_call.p + Length(str_mem0, str_call.q) <= MemSize
      /\ \/ str_call.p <= str_call.q
         \/ str_call.p > str_call.q + Length(str_mem0, str_call.q) )
    => StrcpyPost

\* strcpy returned from a copy of two units and a terminator into a dest
\* that starts one unit before src.
C7_Witness ==
    /\ str_pc = "returned"
    /\ str_call.fn = "strcpy"
    /\ str_call.p + 1 = str_call.q
    /\ Terminated(str_mem0, str_call.q)
    /\ Length(str_mem0, str_call.q) = 2
    /\ str_mem0[str_call.q] # str_mem0[str_call.q + 1]

(***************************************************************************)
(* C8.  As claimed: for all dest, src and n (the n units of dest, and the  *)
(* units of src up to its terminator or its first n units, in guest        *)
(* memory), strncpy(dest, src, n) writes exactly the units dest[0..n) and  *)
(* changes nothing else; if strlen(src) < n, dest[i] = src[i] for          *)
(* i < strlen(src) and dest[i] = 0 for strlen(src) <= i < n; if            *)
(* strlen(src) >= n no terminator is written; src is never read beyond     *)
(* its terminator.                                                         *)
(***************************************************************************)
\* strlen(src), or MemSize + 1 for a src without terminator in memory
SrcLength(m, src) == IF Terminated(m, src) THEN Length(m, src) ELSE MemSize + 1

StrncpyPre ==
    /\ str_call.fn = "strncpy"
    /\ str_call.p + str_call.n - 1 <= MemSize
    /\ \/ Terminated(str_mem0, str_call.q)
       \/ str_call.q + str_call.n - 1 <= MemSize

StrncpyPost ==
    LET dest == str_call.p
        src == str_call.q
        n == str_call.n
        len == SrcLength(str_mem0, src)
    IN  /\ str_out.status = "returned"
        /\ str_out.ret = dest
        /\ str_out.w = 0..(n - 1)
        /\ \A a \in Addr \ (dest..(dest + n - 1)) : mem[a] = str_mem0[a]
        /\ len < n =>
              /\ \A i \in 0..(len - 1) : mem[dest + i] = str_mem0[src + i]
              /\ \A i \in len..(n - 1) : mem[dest + i] = null
        /\ len >= n => \A i \in 0..(n - 1) : mem[dest + i] # null
        /\ \A i \in str_out.r1 : i <= len

C8_Original == StrncpyPre => StrncpyPost

(***************************************************************************)
(* C8, amended.  The same, for every dest that does not lie inside the     *)
(* units of src the call reads, behind the first: dest <= src, or          *)
(* dest >= src + min(n, strlen(src) + 1).                                  *)
(***************************************************************************)
C8_StrncpyCopiesAndPads ==
    ( /\ StrncpyPre
      /\ \/ str_call.p <= str_call.q
         \/ str_call.p >= str_call.q
                + Min({str_call.n, SrcLength(str_mem0, str_call.q) + 1}) )
    => StrncpyPost

\* strncpy copied one unit and padded with at least two zeros, over a dest
\* that held other units.
C8_Witness ==
    /\ str_pc = "returned"
    /\ str_call.fn = "strncpy"
    /\ Terminated(str_mem0, str_call.q)
    /\ Length(str_mem0, str_call.q) = 1
    /\ str_call.n >= 3
    /\ str_call.p > str_call.q + 1
    /\ \A i \in 0..(str_call.n - 1) : str_mem0[str_call.p + i] # null

(***************************************************************************)
(* C9.  For every zero-terminated haystack h and needle n, strstr(h, n)    *)
(* returns h + k for the smallest offset k at which n occurs in h, h       *)
(* itself when n is empty, and the null pointer when n does not occur in   *)
(* h; it reads h at no offset beyond h's terminator and changes no memory. *)
(***************************************************************************)
Occurrences(m, h, n) ==
    {k \in 0..Length(m, h) :
        /\ k + Length(m, n) <= Length(m, h)
        /\ \A j \in 0..(Length(m, n) - 1) : m[h + k + j] = m[n + j]}

C9_StrstrFindsFirst ==
    ( /\ str_call.fn = "strstr"
      /\ Terminated(str_mem0, str_call.p)
      /\ Terminated(str_mem0, str_call.q) )
    => LET h == str_call.p
           n == str_call.q
           occ == Occurrences(str_mem0, h, n)
       IN  /\ str_out.status = "returned"
           /\ str_out.ret = IF occ = {} THEN NullPtr ELSE h + Min(occ)
           /\ Length(str_mem0, n) = 0 => str_out.ret = h
           /\ \A i \in str_out.r1 : i <= Length(str_mem0, h)
           /\ mem = str_mem0

\* strstr found a needle of two units at offset 1, after a match of the
\* needle's first unit at offset 0 that did not go on.
C9_Witness ==
    /\ str_pc = "returned"
    /\ str_call.fn = "strstr"
    /\ Terminated(str_mem0, str_call.p)
    /\ Terminated(str_mem0, str_call.q)
    /\ Length(str_mem0, str_call.q) = 2
    /\ str_mem0[str_call.p] = str_mem0[str_call.q]
    /\ str_out.ret = str_call.p + 1

(***************************************************************************)
(* C10.  For all zero-terminated strings a and b, strcmp returns -1, 0 or  *)
(* 1; strcmp(a, a) = 0; strcmp(a, b) = -strcmp(b, a); the result is 0      *)
(* exactly when a and b hold the same units up to and including the        *)
(* terminator, and otherwise it is -1 or 1 as the first pair of units that *)
(* differ is ordered.                                                      *)
(***************************************************************************)
SameStrings(m, a, b) ==
    /\ Length(m, a) = Length(m, b)
    /\ \A i \in 0..Length(m, a) : m[a + i] = m[b + i]

FirstDifference(m, a, b) ==
    Min({i \in 0..Min({Length(m, a), Length(m, b)}) : m[a + i] # m[b + i]})

C10_StrcmpSign ==
    ( /\ str_call.fn = "strcmp"
      /\ Terminated(str_mem0, str_call.p)
      /\ Terminated(str_mem0, str_call.q) )
    => LET a == str_call.p
           b == str_call.q
           m == str_mem0
       IN  /\ str_out.status = "returned"
           /\ str_out.ret \in {-1, 0, 1}
           /\ a = b => str_out.ret = 0
           /\ str_out.ret = 0 - strcmp(m, b, a).ret
           /\ str_out.ret = 0 <=> SameStrings(m, a, b)
           /\ ~SameStrings(m, a, b) =>
                 LET d == FirstDifference(m, a, b)
                 IN  str_out.ret = IF m[a + d] < m[b + d] THEN -1 ELSE 1
           /\ mem = str_mem0

\* strcmp returned 1 for two strings whose first unit is the same and whose
\* second units, neither a terminator, differ.
C10_Witness ==
    /\ str_pc = "returned"
    /\ str_call.fn = "strcmp"
    /\ Terminated(str_mem0, str_call.p)
    /\ Terminated(str_mem0, str_call.q)
    /\ str_mem0[str_call.p] = str_mem0[str_call.q]
    /\ str_mem0[str_call.p] # null
    /\ str_mem0[str_call.p + 1] > str_mem0[str_call.q + 1]
    /\ str_mem0[str_call.q + 1] # null
    /\ str_out.ret = 1

(***************************************************************************)
(* C11.  For all a, b and n: strncmp(a, b, 0) returns 0 and reads no       *)
(* memory; for n > 0 (each string zero-terminated or with its first n      *)
(* units in guest memory), strncmp(a, b, n) reads no unit at an offset of  *)
(* n or more of either string, and returns the strcmp result of the two    *)
(* strings cut to their first n units: 0 when the first n units agree or   *)
(* the strings end equal before n, and otherwise -1 or 1 as the first      *)
(* pair of units that differ is ordered.                                   *)
(***************************************************************************)
\* the offsets below n where the compared strings differ or end
Stops(m, a, b, n) ==
    {i \in 0..(n - 1) :
        InMem(a + i) /\ InMem(b + i) /\ (m[a + i] # m[b + i] \/ m[a + i] = null)}

StrncmpReadable(m, s, n) == InMem(s) /\ (Terminated(m, s) \/ s + n - 1 <= MemSize)

C11_StrncmpBounded ==
    str_call.fn = "strncmp"
    => LET a == str_call.p
           b == str_call.q
           n == str_call.n
           m == str_mem0
       IN  /\ n = 0 =>
                 /\ str_out.status = "returned"
                 /\ str_out.ret = 0
                 /\ str_out.r1 = {} /\ str_out.r2 = {}
           /\ (n > 0 /\ StrncmpReadable(m, a, n) /\ StrncmpReadable(m, b, n)) =>
                 /\ str_out.status = "returned"
                 /\ \A i \in str_out.r1 \cup str_out.r2 : i < n
                 /\ str_out.ret =
                       IF Stops(m, a, b, n) = {} THEN 0
                       ELSE LET d == Min(Stops(m, a, b, n))
                            IN  IF m[a + d] < m[b + d] THEN -1
                                ELSE IF m[a + d] > m[b + d] THEN 1
                                ELSE 0
                 /\ ( /\ Terminated(m, a) /\ Terminated(m, b)
                      /\ n > Length(m, a) /\ n > Length(m, b) )
                    => str_out.ret = strcmp(m, a, b).ret
           /\ mem = str_mem0

\* strncmp returned 0 for two strings that agree in their first two units
\* and differ in the third, with n = 2.
C11_Witness ==
    /\ str_pc = "returned"
    /\ str_call.fn = "strncmp"
    /\ str_call.n = 2
    /\ str_call.p + 2 \in Addr /\ str_call.q + 2 \in Addr
    /\ str_call.p \in Addr /\ str_call.q \in Addr
    /\ str_mem0[str_call.p] # null
    /\ str_mem0[str_call.p] = str_mem0[str_call.q]
    /\ str_mem0[str_call.p + 1] # null
    /\ str_mem0[str_call.p + 1] = str_mem0[str_call.q + 1]
    /\ str_mem0[str_call.p + 2] # str_mem0[str_call.q + 2]
    /\ str_out.ret = 0

(***************************************************************************)
(* C12.  In every reachable state, every child key open_with_options has   *)
(* inserted into a Directory is the key of a File node of the tree, is not *)
(* empty, holds no `/' and is neither `.' nor `..'; and no call of         *)
(* open_with_options with valid options has aborted in the separator check *)
(* on the created filename (an abort without a host open).                 *)
(***************************************************************************)
C12_InsertedKeysAreNames ==
    /\ \A p \in created :
          /\ Len(p) > 0
          /\ SingleName(p[Len(p)])
          /\ \E e \in Nodes(root) : e.path = p /\ e.kind = "File"
    /\ ( /\ fs_pc = "aborted"
         /\ fs_call.op = "open_with_options"
         /\ options_valid(fs_call.options) )
       => host_open # {}

\* open_with_options has created a file through a guest path that ends in
\* `/', after a doubled `/' or through a `.' component.
C12_Witness ==
    /\ fs_pc = "returned"
    /\ fs_call.op = "open_with_options"
    /\ fs_ret.kind = "Ok"
    /\ \E h \in host_open : h.create
    /\ created # {}
    /\ LET path == fs_call.path
       IN  /\ Len(path) > 1
           /\ path[Len(path)] = "/"

(***************************************************************************)
(* C13.  In every reachable state, no host open of the last call has       *)
(* write, append, truncate or create set on the host path of a File node   *)
(* that is not writeable.  A call of open_with_options with truncate or    *)
(* create but neither write nor append has aborted without a host open;    *)
(* one that names a File node that is not writeable has returned not-found *)
(* without a host open if write or append was requested, and has otherwise *)
(* made one host open, of that node's host path, with write, append,       *)
(* create and truncate all false.                                          *)
(***************************************************************************)
ReadOnlyFiles(r) == {e \in Nodes(r) : e.kind = "File" /\ ~e.file_writeable}

C13_ReadOnlyFilesNotWritten ==
    LET ro == ReadOnlyFiles(root)
    IN  /\ \A h \in host_open :
              (\E e \in ro : e.host_path = Some(h.host_path))
              => ~h.write /\ ~h.append /\ ~h.truncate /\ ~h.create
        /\ fs_call.op = "open_with_options" =>
              LET o == fs_call.options
                  at == resolve_path(fs_call.path, Some(current_directory))
              IN  IF (o.truncate \/ o.create) /\ ~o.write /\ ~o.append
                  THEN fs_pc = "aborted" /\ host_open = {}
                  ELSE \A e \in ro :
                          e.path = at =>
                             IF o.write \/ o.append
                             THEN /\ fs_pc = "returned"
                                  /\ fs_ret.kind = "Err"
                                  /\ host_open = {}
                             ELSE host_open =
                                     {HostOpen(e.host_path[1], o.read, FALSE,
                                               FALSE, FALSE, FALSE)}

\* open_with_options has opened a file of the bundle for reading.
C13_Witness ==
    /\ fs_pc = "returned"
    /\ fs_call.op = "open_with_options"
    /\ fs_call.options.read
    /\ fs_ret.kind = "Ok"
    /\ \E h \in host_open :
          /\ IsPrefix(bundle_host_path, h.host_path)
          /\ \E e \in ReadOnlyFiles(root) : e.host_path = Some(h.host_path)

=============================================================================
